---- MODULE Spec2Model ----
\* Model of the Obsidian backlink generator (src/app.py).
\*
\* Text is modelled character by character: a string is a sequence of
\* one-character strings, so that the three regular expressions of the program
\* (explicit links, literal title references, the Backlinks block) are computed
\* as Python's re module computes them rather than assumed.
EXTENDS Integers, Sequences, FiniteSets, TLC

\* ------------------------------------------------------------------ text

LB == <<"[", "[">>
RB == <<"]", "]">>
NL == <<"\n">>
SP == <<" ">>
PIPE == <<"|">>
SLASH == <<"/">>
MD == <<".", "m", "d">>
TXT == <<".", "t", "x", "t">>

\* the literal "## Backlinks" of the section pattern and of the rendered section
HEADING == <<"#", "#", " ", "B", "a", "c", "k", "l", "i", "n", "k", "s">>

Min(S) == CHOOSE x \in S : \A y \in S : x <= y
Max(S) == CHOOSE x \in S : \A y \in S : x >= y
Range(s) == {s[i] : i \in 1..Len(s)}

\* s[i:] in Python terms (1-based i)
Tail_(s, i) == SubSeq(s, i, Len(s))

\* p occurs in s at position i
StartsAt(s, i, p) ==
    /\ i >= 1
    /\ i + Len(p) - 1 <= Len(s)
    /\ \A k \in 1..Len(p) : s[i + k - 1] = p[k]

\* str.endswith
endswith(s, p) == Len(p) <= Len(s) /\ StartsAt(s, Len(s) - Len(p) + 1, p)

\* p in s
Contains(s, p) == \E i \in 1..(Len(s) + 1) : StartsAt(s, i, p)

\* no "\n" among s[from..to]: what "." matches without re.DOTALL
NoNewline(s, from, to) == \A k \in from..to : s[k] # "\n"

\* ----------------------------------------------------------------- titles

\* os.path.basename: the part after the last "/"
basename(p) ==
    LET seps == {i \in 1..Len(p) : p[i] = "/"}
    IN  IF seps = {} THEN p ELSE Tail_(p, Max(seps) + 1)

\* os.path.splitext(b)[0] for a basename b: cut at the last dot, unless only
\* dots precede it (a leading-dot name has no extension)
splitext0(b) ==
    LET dots == {i \in 1..Len(b) : b[i] = "."}
    IN  IF dots = {} THEN b
        ELSE LET d == Max(dots)
             IN  IF \E i \in 1..(d - 1) : b[i] # "." THEN SubSeq(b, 1, d - 1) ELSE b

extract_note_title(file_path) == splitext0(basename(file_path))

\* ------------------------------------------------------------ parse_links

\* the optional group (?:\|.*?)? at position j: "|", then as few non-newline
\* characters as possible, then "]]" must follow. The position after the "]]",
\* or 0 when the group cannot be taken there.
PipeTailEnd(s, j) ==
    IF ~StartsAt(s, j, PIPE) THEN 0
    ELSE LET ends == {e \in (j + 1)..Len(s) :
                         StartsAt(s, e, RB) /\ NoNewline(s, j + 1, e - 1)}
         IN  IF ends = {} THEN 0 ELSE Min(ends) + 2

\* one match of \[\[(.*?)(?:\|.*?)?\]\] anchored at i: the captured group and
\* the position after the match; end = 0 when there is no match at i
LinkMatchAt(s, i) ==
    IF ~StartsAt(s, i, LB) THEN [cap |-> <<>>, end |-> 0]
    ELSE LET ks == {k \in 0..(Len(s) - i - 1) :
                       /\ NoNewline(s, i + 2, i + 1 + k)
                       /\ \/ PipeTailEnd(s, i + 2 + k) # 0
                          \/ StartsAt(s, i + 2 + k, RB)}
         IN  IF ks = {} THEN [cap |-> <<>>, end |-> 0]
             ELSE LET k == Min(ks)
                      j == i + 2 + k
                  IN  [cap |-> SubSeq(s, i + 2, i + 1 + k),
                       end |-> IF PipeTailEnd(s, j) # 0 THEN PipeTailEnd(s, j)
                               ELSE j + 2]

\* re.findall from position pos on: the captures of the successive
\* non-overlapping matches, leftmost first
RECURSIVE FindAllLinks(_, _)
FindAllLinks(s, pos) ==
    LET starts == {i \in pos..Len(s) : LinkMatchAt(s, i).end # 0}
    IN  IF starts = {} THEN <<>>
        ELSE LET m == LinkMatchAt(s, Min(starts))
             IN  <<m.cap>> \o FindAllLinks(s, m.end)

\* variant: re.search in place of re.findall, only the first link is returned
parse_links_first(content) ==
    IF FindAllLinks(content, 1) = <<>> THEN <<>> ELSE <<Head(FindAllLinks(content, 1))>>

parse_links(content) == FindAllLinks(content, 1)

\* --------------------------------------------------- find_text_references

MinTitleLen == 3

\* re.search of (?<!\[\[) title (?!\]\]) in content
TextMatch(content, title) ==
    \E i \in 1..Len(content) :
        /\ StartsAt(content, i, title)
        /\ ~StartsAt(content, i - 2, LB)
        /\ ~StartsAt(content, i + Len(title), RB)

\* the titles of note_titles (in order, repeats kept) that content mentions
find_text_references(content, note_titles) ==
    SelectSeq(note_titles,
              LAMBDA title : Len(title) >= MinTitleLen /\ TextMatch(content, title))

\* ------------------------------------------- update_files_with_backlinks

\* the fixed prefix "## Backlinks\n\n" of backlink_section_pattern
HeadingNL == HEADING \o NL \o NL

\* "$" without re.MULTILINE: at the end of the text, or just before a final "\n"
AtDollar(s, p) == p = Len(s) + 1 \/ (p = Len(s) /\ s[p] = "\n")

\* the position after the match of ## Backlinks\n\n.*?(?:\n\n|$) (re.DOTALL)
\* that starts at i, where the heading and its blank line are known to stand
SectionEnd(s, i) ==
    LET j == i + Len(HeadingNL)
        k == Min({n \in 0..(Len(s) + 1 - j) :
                     StartsAt(s, j + n, NL \o NL) \/ AtDollar(s, j + n)})
    IN  IF StartsAt(s, j + k, NL \o NL) THEN j + k + 2 ELSE j + k

\* re.search(backlink_section_pattern, content, re.DOTALL) is not None
existing_section(content) == Contains(content, HeadingNL)

\* re.sub(backlink_section_pattern, repl, s, flags=re.DOTALL) from position
\* pos on: count is left at 0, so every non-overlapping match is replaced.
\* (The titles of the model hold no backslash, so repl is its own expansion as
\* a replacement template.)
RECURSIVE SubAll(_, _, _)
SubAll(s, pos, repl) ==
    LET starts == {i \in pos..Len(s) : StartsAt(s, i, HeadingNL)}
    IN  IF starts = {} THEN Tail_(s, pos)
        ELSE LET i == Min(starts)
             IN  SubSeq(s, pos, i - 1) \o repl \o SubAll(s, SectionEnd(s, i), repl)

\* f"- [[{source_title}]]\n"
Entry(source_title) == <<"-", " ">> \o LB \o source_title \o RB \o NL

RECURSIVE Entries(_)
Entries(references) ==
    IF references = <<>> THEN <<>>
    ELSE Entry(Head(references)[1]) \o Entries(Tail(references))

\* the rendered section: heading, blank line, one entry per reference, blank line
new_section(references) == HeadingNL \o Entries(references) \o NL

\* the separation added before a section appended at the end
Separated(content) ==
    IF endswith(content, NL \o NL) THEN content
    ELSE IF endswith(content, NL) THEN content \o NL
    ELSE content \o NL \o NL

\* one iteration of the update loop on the text of the target, as a function:
\* whether the file is written, and with what
Rewrite(content, references, update_mode) ==
    IF existing_section(content) /\ update_mode = "replace"
    THEN [write |-> TRUE, content |-> SubAll(content, 1, new_section(references))]
    ELSE IF existing_section(content) /\ update_mode = "append"
    THEN [write |-> FALSE, content |-> content]
    ELSE [write |-> TRUE, content |-> Separated(content) \o new_section(references)]

\* ------------------------------------------------------------- the vaults

\* One-line texts used to build the initial vaults.
TA == <<"A">>
TB == <<"B">>
TC == <<"C">>
TS == <<"S">>
TT == <<"T">>
TX == <<"X">>
TZ == <<"Z">>
TQ == <<"Q">>
Ta == <<"a">>
Tb == <<"b">>
TBob == <<"B", "o", "b">>
TOld == <<"O", "l", "d">>
TPipe == <<"a", "|", "b">>
TBacklinks == <<"B", "a", "c", "k", "l", "i", "n", "k", "s">>
Word == <<"h", "i">>

Link(t) == LB \o t \o RB
Note(stem) == stem \o MD
In(dir, name) == dir \o SLASH \o name
F(path, content) == [path |-> path, content |-> content]

\* Each vault is the directory tree as os.walk yields it (top directory first):
\* the files in walk order, each with its text.
VaultPlain ==
    << F(Note(TA), Link(TBob) \o SP \o Link(TBob)),
       F(Note(TBob), Word),
       F(Note(TC), TBob \o SP \o Word),
       F(Note(TZ), HeadingNL \o Entry(TQ) \o NL),
       F(TQ \o TXT, Link(TA)) >>

VaultCollision ==
    << F(Note(TB), Link(TX)),
       F(In(Ta, Note(TX)), Link(TB)),
       F(In(Tb, Note(TX)), Link(TB) \o NL) >>

VaultCollisionOneLink ==
    << F(Note(TB), Word),
       F(In(Ta, Note(TX)), Link(TB)),
       F(In(Tb, Note(TX)), Word \o NL) >>

VaultTwoBlocks ==
    << F(Note(TS), Link(TT)),
       F(Note(TT), Word \o NL \o NL \o HeadingNL \o Entry(TOld) \o NL
                   \o Word \o NL \o HeadingNL \o Entry(TOld)) >>

VaultBareHeading ==
    << F(Note(TS), Link(TT) \o NL \o NL),
       F(Note(TT), HEADING \o NL \o Entry(TOld)) >>

VaultPipeLink ==
    << F(Note(TA), Link(TA) \o SP \o Link(TBob \o PIPE \o Word)),
       F(Note(TBob), <<>>) >>

VaultPipeTitle ==
    << F(Note(TPipe), Link(TT)),
       F(Note(Ta), Word \o NL),
       F(Note(TT), Word) >>

VaultBacklinksNote ==
    << F(Note(TA), Link(TB)),
       F(Note(TB), Word),
       F(Note(TBacklinks), Word) >>

Vaults == {VaultPlain, VaultCollision, VaultCollisionOneLink, VaultTwoBlocks,
           VaultBareHeading, VaultPipeLink, VaultPipeTitle, VaultBacklinksNote}

\* the number of times the program is run in a row on the same vault
MaxRuns == 3

\* ------------------------------------------------------------------ state

VARIABLES
    walk,            \* the paths of the vault in os.walk order
    files,           \* path -> text: the file system
    unwritable,      \* the paths whose open(path, 'w') raises
    update_mode,     \* args.mode
    text_refs,       \* args.text_refs
    pc,              \* where main() stands: scan, read, write, done, aborted
    run,             \* which run of the program this is
    markdown_files,  \* the list find_markdown_files returned
    readIdx,         \* position of generate_backlinks' loop in markdown_files
    backlinks,       \* the dict, as its items in insertion order: <<target, references>>
    writeIdx,        \* position of update_files_with_backlinks' loop in the items
    before,          \* history: files as this run found them
    processed,       \* history: the targets whose loop iteration ran in this run
    wrote,           \* history: the targets written in this run
    snaps,           \* history: files at the end of each completed run
    lastWritten,     \* history: <<target, source title>> for each entry the previous run wrote
    original         \* history: files before the first run

vars == <<walk, files, unwritable, update_mode, text_refs, pc, run, markdown_files,
          readIdx, backlinks, writeIdx, before, processed, wrote, snaps, lastWritten,
          original>>

\* ------------------------------------------------------ find_markdown_files

find_markdown_files(w) == SelectSeq(w, LAMBDA file : endswith(file, MD))

\* ------------------------------------------------------ generate_backlinks

note_titles(mf) == [i \in 1..Len(mf) |-> extract_note_title(mf[i])]

\* variant: the first file with a title keeps it
file_title_map_first(mf) ==
    [t \in Range(note_titles(mf)) |->
        mf[Min({i \in 1..Len(mf) : extract_note_title(mf[i]) = t})]]

\* {extract_note_title(f): f for f in markdown_files}: a later file with the
\* same title overwrites the earlier one
file_title_map(mf) ==
    [t \in Range(note_titles(mf)) |->
        mf[Max({i \in 1..Len(mf) : extract_note_title(mf[i]) = t})]]

\* set(links + text_refs): the literal-title references are always computed
all_refs(content, mf) ==
    Range(parse_links(content) \o find_text_references(content, note_titles(mf)))

Keys(bl) == {bl[i][1] : i \in 1..Len(bl)}

\* backlinks[target] of the defaultdict, without inserting
RefsOf(bl, target) ==
    IF target \in Keys(bl)
    THEN bl[CHOOSE i \in 1..Len(bl) : bl[i][1] = target][2]
    ELSE <<>>

\* backlinks[target_file].append(ref): a new key goes last
AddRef(bl, target, ref) ==
    IF target \in Keys(bl)
    THEN [i \in 1..Len(bl) |->
            IF bl[i][1] = target THEN <<target, Append(bl[i][2], ref)>> ELSE bl[i]]
    ELSE Append(bl, <<target, <<ref>>>>)

RECURSIVE AddRefs(_, _, _)
AddRefs(bl, targets, ref) ==
    IF targets = <<>> THEN bl
    ELSE AddRefs(AddRef(bl, Head(targets), ref), Tail(targets), ref)

\* the orders in which a set of strings may be iterated
Orders(S) ==
    {o \in [1..Cardinality(S) -> S] : \A i, j \in 1..Cardinality(S) : o[i] = o[j] => i = j}

\* ------------------------------------------- update_files_with_backlinks

\* variant: the loop runs over every markdown file, referenced or not
PendingEvery(bl) ==
    [i \in 1..Len(markdown_files) |-> <<markdown_files[i], RefsOf(bl, markdown_files[i])>>]

\* the items the update loop acts on: those with a non-empty reference list
Pending(bl) == SelectSeq(bl, LAMBDA item : item[2] # <<>>)

\* variant: targets are rewritten while the files are still being read
CanWriteEarly == pc \in {"read", "write"}

\* main() calls update_files_with_backlinks once generate_backlinks has returned
CanWrite == pc = "write"

\* ---------------------------------------------------------------- actions

Init ==
    /\ \E v \in Vaults :
          /\ walk = [i \in 1..Len(v) |-> v[i].path]
          /\ files = [p \in {v[i].path : i \in 1..Len(v)} |->
                         v[CHOOSE i \in 1..Len(v) : v[i].path = p].content]
          /\ unwritable \in {{}} \cup {{v[i].path} : i \in 1..Len(v)}
    /\ update_mode \in {"append", "replace"}
    /\ text_refs \in BOOLEAN
    /\ pc = "scan"
    /\ run = 1
    /\ markdown_files = <<>>
    /\ readIdx = 1
    /\ backlinks = <<>>
    /\ writeIdx = 1
    /\ before = files
    /\ processed = {}
    /\ wrote = {}
    /\ snaps = <<>>
    /\ lastWritten = {}
    /\ original = files

\* main, lines 114-118: enumerate the vault
Scan ==
    /\ pc = "scan"
    /\ markdown_files' = find_markdown_files(walk)
    /\ pc' = "read"
    /\ UNCHANGED <<walk, files, unwritable, update_mode, text_refs, run, readIdx,
                   backlinks, writeIdx, before, processed, wrote, snaps, lastWritten, original>>

\* generate_backlinks, one iteration of the loop over markdown_files
ReadDoc ==
    /\ pc = "read"
    /\ readIdx <= Len(markdown_files)
    /\ LET file_path == markdown_files[readIdx]
           content == files[file_path]
           source_title == extract_note_title(file_path)
           ftm == file_title_map(markdown_files)
           hits == {ref \in all_refs(content, markdown_files) : ref \in DOMAIN ftm}
       IN  \E o \in Orders(hits) :
              backlinks' = AddRefs(backlinks, [i \in 1..Len(o) |-> ftm[o[i]]],
                                   <<source_title, file_path>>)
    /\ readIdx' = readIdx + 1
    /\ UNCHANGED <<walk, files, unwritable, update_mode, text_refs, pc, run,
                   markdown_files, writeIdx, before, processed, wrote, snaps, lastWritten, original>>

\* main, lines 121-124: generate_backlinks returns, the update begins
StartUpdate ==
    /\ pc = "read"
    /\ readIdx > Len(markdown_files)
    /\ pc' = "write"
    /\ UNCHANGED <<walk, files, unwritable, update_mode, text_refs, run, markdown_files,
                   readIdx, backlinks, writeIdx, before, processed, wrote, snaps, lastWritten, original>>

\* update_files_with_backlinks, one iteration of the loop that ends normally
WriteDoc ==
    /\ CanWrite
    /\ writeIdx <= Len(Pending(backlinks))
    /\ LET target_file == Pending(backlinks)[writeIdx][1]
           references == Pending(backlinks)[writeIdx][2]
           r == Rewrite(files[target_file], references, update_mode)
       IN  /\ r.write => target_file \notin unwritable
           /\ files' = IF r.write THEN [files EXCEPT ![target_file] = r.content] ELSE files
           /\ wrote' = IF r.write THEN wrote \cup {target_file} ELSE wrote
           /\ processed' = processed \cup {target_file}
    /\ writeIdx' = writeIdx + 1
    /\ UNCHANGED <<walk, unwritable, update_mode, text_refs, pc, run, markdown_files,
                   readIdx, backlinks, before, snaps, lastWritten, original>>

\* update_files_with_backlinks, line 102: open(target_file, 'w') raises; nothing
\* catches it, so the exception leaves main()
WriteFail ==
    /\ CanWrite
    /\ writeIdx <= Len(Pending(backlinks))
    /\ LET target_file == Pending(backlinks)[writeIdx][1]
           references == Pending(backlinks)[writeIdx][2]
           r == Rewrite(files[target_file], references, update_mode)
       IN  r.write /\ target_file \in unwritable
    /\ pc' = "aborted"
    /\ UNCHANGED <<walk, files, unwritable, update_mode, text_refs, run, markdown_files,
                   readIdx, backlinks, writeIdx, before, processed, wrote, snaps, lastWritten, original>>

\* main, line 126: the update loop is over
Done ==
    /\ pc = "write"
    /\ writeIdx > Len(Pending(backlinks))
    /\ pc' = "done"
    /\ snaps' = Append(snaps, files)
    /\ UNCHANGED <<walk, files, unwritable, update_mode, text_refs, run, markdown_files,
                   readIdx, backlinks, writeIdx, before, processed, wrote, lastWritten, original>>

\* the program is started again on the vault as the last run left it
Rerun ==
    /\ pc \in {"done", "aborted"}
    /\ run < MaxRuns
    /\ run' = run + 1
    /\ pc' = "scan"
    /\ markdown_files' = <<>>
    /\ readIdx' = 1
    /\ backlinks' = <<>>
    /\ writeIdx' = 1
    /\ before' = files
    /\ processed' = {}
    /\ wrote' = {}
    /\ lastWritten' = UNION {{<<t, RefsOf(backlinks, t)[i][1]>> :
                                 i \in 1..Len(RefsOf(backlinks, t))} : t \in wrote}
    /\ UNCHANGED <<walk, files, unwritable, update_mode, text_refs, snaps, original>>

Next == Scan \/ ReadDoc \/ StartUpdate \/ WriteDoc \/ WriteFail \/ Done \/ Rerun

Spec == Init /\ [][Next]_vars

\* ----------------------------------------------------------------- claims

\* generate_backlinks has returned: the index of this run is complete
IndexDone == pc \in {"write", "done", "aborted"}

Docs == Range(markdown_files)
Title(d) == extract_note_title(d)

\* the number of places where p occurs in s
CountOcc(s, p) == Cardinality({i \in 1..Len(s) : StartsAt(s, i, p)})

\* C1: if D1's text contains the explicit link [[Title(D2)]], then after a run
\* D2's Backlinks section holds the entry "- [[Title(D1)]]" exactly once (no
\* source title is rendered twice). Stated for a first, completed run and a
\* target that is the document registered for its title and had neither a
\* Backlinks heading nor the entry before.
C1_EntryExactlyOnce ==
    (pc = "done" /\ run = 1) =>
        \A d1, d2 \in Docs :
            ( /\ Contains(before[d1], Link(Title(d2)))
              /\ file_title_map(markdown_files)[Title(d2)] = d2
              /\ ~Contains(before[d2], HEADING)
              /\ CountOcc(before[d2], Entry(Title(d1))) = 0 )
            => CountOcc(files[d2], Entry(Title(d1))) = 1

\* C2: in replace mode, the vault after the second run equals, byte for byte,
\* the vault after the third run.
C2_ReplaceIdempotent ==
    (update_mode = "replace" /\ Len(snaps) >= 3) => snaps[2] = snaps[3]

\* C3: in append mode a document whose text already holds a Backlinks section,
\* detected by the heading marker "## Backlinks", is left byte-identical by the
\* run, whatever its inbound references are.
C3_AppendNoOpHeading ==
    update_mode = "append" =>
        \A d \in DOMAIN files : Contains(before[d], HEADING) => files[d] = before[d]

\* C4: with the literal-text flag off, every recorded backlink comes from an
\* explicit link: the source's text links to the target's title.
C4_TextRefsOptIn ==
    (IndexDone /\ ~text_refs) =>
        \A i \in 1..Len(backlinks) : \A j \in 1..Len(backlinks[i][2]) :
            Title(backlinks[i][1]) \in Range(parse_links(before[backlinks[i][2][j][2]]))

\* the documents of the run that carry title x, and the last of them enumerated
WithTitle(x) == {d \in Docs : Title(d) = x}
LastWithTitle(x) ==
    markdown_files[Max({i \in 1..Len(markdown_files) : Title(markdown_files[i]) = x})]

\* C5: a title shared by several documents is looked up as the one enumerated
\* last; every reference to it is recorded against that document, and the
\* other documents of that title receive no reference.
C5_LastRegisteredWins ==
    IndexDone =>
        \A x \in {Title(d) : d \in Docs} :
            /\ file_title_map(markdown_files)[x] = LastWithTitle(x)
            /\ \A d \in Docs :
                  x \in all_refs(before[d], markdown_files)
                  => <<Title(d), d>> \in Range(RefsOf(backlinks, LastWithTitle(x)))
            /\ \A e \in WithTitle(x) \ {LastWithTitle(x)} : e \notin Keys(backlinks)

\* C5 witness: two documents share a title, some document refers to it, and
\* the index is complete.
C5_Witness ==
    /\ IndexDone
    /\ \E d, e \in Docs :
          /\ d # e
          /\ Title(d) = Title(e)
          /\ LastWithTitle(Title(d)) \in Keys(backlinks)

\* the documents whose text, as the run found it, refers to the title that is
\* registered for d
Inbound(d) ==
    {s \in Docs :
        \E x \in all_refs(before[s], markdown_files) :
            /\ x \in DOMAIN file_title_map(markdown_files)
            /\ file_title_map(markdown_files)[x] = d}

\* C6: a document with no inbound reference is not written during the run, in
\* either mode: its text stays what the run found.
C6_NoInboundNotWritten ==
    pc # "scan" =>
        \A d \in DOMAIN files : Inbound(d) = {} => (files[d] = before[d] /\ d \notin wrote)

\* C6 witness: a replace run is over, it wrote some document, and a document
\* that had a Backlinks section and no inbound reference is in the vault.
C6_Witness ==
    /\ pc = "done"
    /\ update_mode = "replace"
    /\ wrote # {}
    /\ \E d \in Docs : Inbound(d) = {} /\ existing_section(before[d])

\* the index as a set of <<target, source title, source path>>
IndexTriples(bl) ==
    UNION {{<<bl[i][1], bl[i][2][j][1], bl[i][2][j][2]>> : j \in 1..Len(bl[i][2])} :
              i \in 1..Len(bl)}

\* C7: no document is written before every enumerated document has been read,
\* and the index of the run is the one the texts found at the start determine.
C7_ReadsBeforeWrites ==
    /\ (wrote # {} \/ processed # {}) => readIdx > Len(markdown_files)
    /\ files # before => readIdx > Len(markdown_files)
    /\ IndexDone =>
          IndexTriples(backlinks) =
              UNION {{<<d, Title(s), s>> : s \in Inbound(d)} : d \in Docs}

\* C7 witness: the write pass is under way and has changed a file.
C7_Witness == pc = "write" /\ wrote # {} /\ files # before

\* C8: when the write of one target fails the run still rewrites every other
\* target that has inbound references.
C8_WriteErrorIsolated ==
    pc \in {"done", "aborted"} =>
        \A i \in 1..Len(backlinks) :
            (backlinks[i][2] # <<>> /\ backlinks[i][1] \notin unwritable)
            => backlinks[i][1] \in processed

\* the text with only the first Backlinks block replaced by repl
ReplaceFirst(s, repl) ==
    LET i == Min({n \in 1..Len(s) : StartsAt(s, n, HEADING \o NL \o NL)})
    IN  SubSeq(s, 1, i - 1) \o repl \o Tail_(s, SectionEnd(s, i))

\* C9: replace mode substitutes the rendered section for the first Backlinks
\* block only; the text outside that block, later blocks included, is unchanged.
C9_ReplaceFirstOnly ==
    update_mode = "replace" =>
        \A d \in wrote :
            Contains(before[d], HEADING \o NL \o NL)
            => files[d] = ReplaceFirst(before[d], new_section(RefsOf(backlinks, d)))

\* the previous run's entry <<t, s>> is fed back: this run records t as a
\* source of the document registered under s
FedBack(t, s) ==
    /\ s \in DOMAIN file_title_map(markdown_files)
    /\ <<Title(t), t>> \in Range(RefsOf(backlinks, file_title_map(markdown_files)[s]))

\* C10 as stated, for any title: every entry "- [[S]]" the previous run wrote into T makes
\* this run record T as a source of the document registered under title S.
C10_FeedbackAnyTitle ==
    IndexDone => \A e \in lastWritten : FedBack(e[1], e[2])

\* a title without "|", "]" and newline
PlainTitle(s) == \A i \in 1..Len(s) : s[i] \notin {"|", "]", "\n"}

\* C10: every entry "- [[S]]" the previous run wrote into T, for a title S that
\* holds no "|", "]" or newline, makes this run record T as a source of the
\* document registered under title S.
C10_FeedbackPlainTitle ==
    IndexDone => \A e \in lastWritten : PlainTitle(e[2]) => FedBack(e[1], e[2])

\* C10 witness: the previous run wrote an entry for a plain title S into a
\* document T whose original text never referred to S, and this run's index is
\* complete.
C10_Witness ==
    /\ IndexDone
    /\ \E e \in lastWritten :
          /\ PlainTitle(e[2])
          /\ e[2] \notin all_refs(original[e[1]], markdown_files)
          /\ FedBack(e[1], e[2])

====
